---- MODULE Spec2Model ----
(***************************************************************************)
(* State-machine model of thetagang's PremarketScanner                     *)
(* (src/thetagang/premarket_scanner.py).                                   *)
(*                                                                         *)
(* Representation choices:                                                 *)
(*  - a Python float is a record [nan, v]: v is the (integer) value, nan   *)
(*    marks float('nan');                                                  *)
(*  - price_change_pct is an exact rational [nan, num, den]; den = 0       *)
(*    stands for a division whose divisor was zero (ZeroDivisionError);    *)
(*  - a Python dict is the sequence of its entries [key, value] in         *)
(*    insertion order;                                                     *)
(*  - instants are minutes after midnight, America/New_York;                *)
(*  - the result dict's "volume" and "timestamp", which no decision reads, *)
(*    are left out, and so is the logging-only block of lines 220-242.     *)
(***************************************************************************)
EXTENDS Integers, Sequences, FiniteSets, TLC

VARIABLES
    config,            \* self.config.symbols: ordered dict symbol -> symbol config
    now,               \* the latest instant datetime.now() has returned
    window_open,       \* what the latest is_premarket_hours() call returned
    lookup,            \* what the exchange calendar answered in that call
    pc,                \* position of scan_all_symbols: "idle", "created", "gathering"
    tasks,             \* the coroutines scan_symbol(symbol), in the order of creation
    completed,         \* positions of the tasks in the order they finished
    scan_results,      \* the dict self.scan_results refers to
    report,            \* the dict the last scan_all_symbols call returned
    report_is_self,    \* whether that dict is the object self.scan_results refers to
    successful_scans,  \* local counter of scan_all_symbols (0 while unassigned)
    failed_scans,      \* local counter of scan_all_symbols (0 while unassigned)
    log,               \* log lines the current / last scan_all_symbols call emitted
    raised,            \* whether an exception left scan_all_symbols
    top,               \* the last get_top_opportunities call: its limit and its list
    earnings_date,     \* the argument of the last get_same_week_expiry call
    expiry_str,        \* what that call returned
    current_regime,    \* MarketRegimeDetector.current_regime
    metrics,           \* what the last detect_regime call returned
    hours_config,      \* the ExchangeHoursConfig of the last need_to_exit call
    action,            \* what determine_action returned in that call
    slept              \* the time.sleep call of that call

\* the state of the modules beside the scanner: earnings_detector,
\* market_regime, exchange_hours
others == <<earnings_date, expiry_str, current_regime, metrics, hours_config, action, slept>>

vars == <<config, now, window_open, lookup, pc, tasks, completed, scan_results, report, report_is_self,
          successful_scans, failed_scans, log, raised, top, others>>

---------------------------------------------------------------------------
(* Bounds of the model *)

MaxSymbols == 2

Symbols == {"A", "B", "C"}

---------------------------------------------------------------------------
(* Python values *)

FNum(v) == [nan |-> FALSE, v |-> v]
FNaN == [nan |-> TRUE, v |-> 0]

NoneResult == [kind |-> "None"]
ExceptionResult == [kind |-> "Exception"]

NoneConfig == [kind |-> "None"]

Range(seq) == {seq[i] : i \in 1..Len(seq)}

Entry(key, value) == [key |-> key, value |-> value]

\* list(d.keys()) and list(d.values()) of an ordered dict
Keys(d) == [i \in 1..Len(d) |-> d[i].key]
Values(d) == [i \in 1..Len(d) |-> d[i].value]

HasKey(d, key) == \E i \in 1..Len(d) : d[i].key = key

\* d.get(key, default)
DictGet(d, key, default) ==
    IF HasKey(d, key)
    THEN d[CHOOSE i \in 1..Len(d) : d[i].key = key].value
    ELSE default

\* d[key] = value: an existing key keeps its position, a new key is appended
DictSet(d, key, value) ==
    IF HasKey(d, key)
    THEN [i \in 1..Len(d) |-> IF d[i].key = key THEN Entry(key, value) ELSE d[i]]
    ELSE Append(d, Entry(key, value))

---------------------------------------------------------------------------
(* Symbol configuration: symbol_config.puts / .calls, each None or an object *)
(* whose write_when is None or an object with the flags red and green,      *)
(* each True, False or None.                                                *)

Flags == {"True", "False", "None"}

WriteWhens == {[kind |-> "None"]} \cup
              {[kind |-> "WriteWhen", red |-> r, green |-> g] : r \in Flags, g \in Flags}

Sides == {[kind |-> "None"]} \cup {[kind |-> "Side", write_when |-> w] : w \in WriteWhens}

SymbolConfigs ==
    {[kind |-> "SymbolConfig", puts |-> p, calls |-> c] : p \in Sides, c \in Sides}

\* the configurations the scan orchestration is explored with
Unset == [kind |-> "None"]
Flagged(r, g) == [kind |-> "Side", write_when |-> [kind |-> "WriteWhen", red |-> r, green |-> g]]

ScanConfig(symbol) ==
    IF symbol = "B"
    THEN [kind |-> "SymbolConfig",
          puts |-> Flagged("None", "False"), calls |-> Flagged("None", "True")]
    ELSE [kind |-> "SymbolConfig", puts |-> Unset, calls |-> Unset]

---------------------------------------------------------------------------
(* Collaborator responses *)

\* await self.ibkr.qualify_contracts(stock_contract)
QualifyResponses == {"raise", "empty", "qualified"}

\* an attribute of the ticker: missing, NaN, or a number
Attr(kind, v) == [kind |-> kind, v |-> v]

\* await self.ibkr.get_ticker_for_contract(contract): raises, a falsy value, or a
\* ticker with marketPrice() and close
Ticker(mp, cl) == [kind |-> "Ticker", marketPrice |-> mp, close |-> cl]

MarketPrices == {Attr("missing", 0), Attr("nan", 0), Attr("raise", 0)} \cup
                {Attr("num", v) : v \in {0, 49, 97, 98, 99, 100, 101, 102}}

Closes == {Attr("missing", 0), Attr("nan", 0)} \cup {Attr("num", v) : v \in {0, 50, 100}}

AllTickers == {Ticker(mp, cl) : mp \in MarketPrices, cl \in Closes}

\* the quotes the scan orchestration is explored with
ScanTickers ==
    {Ticker(Attr("num", 98), Attr("num", 100)),
     Ticker(Attr("num", 102), Attr("num", 100)),
     Ticker(Attr("num", 100), Attr("num", 0))}

TickerResponses(tickers) == {[kind |-> "raise"], [kind |-> "None"]} \cup tickers

---------------------------------------------------------------------------
(* scan_symbol, lines 120-172: the synchronous tail that runs once the ticker *)
(* has arrived                                                                *)

\* line 121 (a marketPrice() that raises is handled in ScanSymbolBody)
CurrentPrice(ticker) ==
    CASE ticker.marketPrice.kind = "num" -> FNum(ticker.marketPrice.v)
      [] ticker.marketPrice.kind = "nan" -> FNaN
      [] OTHER -> FNum(0)

\* line 122
ClosePrice(ticker) ==
    IF ticker.close.kind = "num" THEN FNum(ticker.close.v) ELSE FNum(0)

\* (current_price - close_price) / close_price * 100: den = 0 is a zero divisor
Quotient(current_price, close_price) ==
    IF close_price.v = 0
    THEN [nan |-> FALSE, num |-> 0, den |-> 0]
    ELSE IF current_price.nan
    THEN [nan |-> TRUE, num |-> 0, den |-> 1]
    ELSE [nan |-> FALSE, num |-> (current_price.v - close_price.v) * 100,
          den |-> close_price.v]

PriceChangePctUnguarded(current_price, close_price) ==
    Quotient(current_price, close_price)

\* lines 125-127
PriceChangePct(current_price, close_price) ==
    IF close_price.v > 0
    THEN Quotient(current_price, close_price)
    ELSE [nan |-> FALSE, num |-> 0, den |-> 1]

\* pct < k and pct > k for a float pct and an integer k (false for NaN)
Lt(pct, k) == ~pct.nan /\ pct.den > 0 /\ pct.num < k * pct.den
Gt(pct, k) == ~pct.nan /\ pct.den > 0 /\ pct.num > k * pct.den

AllowRedWhenSet(symbol_config) ==
    /\ symbol_config.puts.kind # "None"
    /\ symbol_config.puts.write_when.kind # "None"
    /\ symbol_config.puts.write_when.red = "True"

\* lines 142-146
AllowRed(symbol_config) ==
    \/ symbol_config.puts.kind = "None"
    \/ symbol_config.puts.write_when.kind = "None"
    \/ symbol_config.puts.write_when.red = "True"

\* lines 152-156
AllowGreen(symbol_config) ==
    \/ symbol_config.calls.kind = "None"
    \/ symbol_config.calls.write_when.kind = "None"
    \/ symbol_config.calls.write_when.green = "True"

Opportunity(h, a) == [has_opportunity |-> h, recommended_action |-> a]

ClassifyInclusive(symbol_config, price_change_pct) ==
    IF symbol_config.kind = "None" THEN Opportunity(FALSE, "None")
    ELSE IF ~Gt(price_change_pct, -1) /\ ~price_change_pct.nan
    THEN (IF AllowRed(symbol_config) THEN Opportunity(TRUE, "PUT")
          ELSE Opportunity(FALSE, "None"))
    ELSE IF ~Lt(price_change_pct, 1) /\ ~price_change_pct.nan
    THEN (IF AllowGreen(symbol_config) THEN Opportunity(TRUE, "CALL")
          ELSE Opportunity(FALSE, "None"))
    ELSE Opportunity(FALSE, "None")

\* lines 135-158
Classify(symbol_config, price_change_pct) ==
    IF symbol_config.kind = "None" THEN Opportunity(FALSE, "None")
    ELSE IF Lt(price_change_pct, -1)
    THEN (IF AllowRed(symbol_config) THEN Opportunity(TRUE, "PUT")
          ELSE Opportunity(FALSE, "None"))
    ELSE IF Gt(price_change_pct, 1)
    THEN (IF AllowGreen(symbol_config) THEN Opportunity(TRUE, "CALL")
          ELSE Opportunity(FALSE, "None"))
    ELSE Opportunity(FALSE, "None")

\* lines 120-172 given the ticker: the result dict, or ExceptionResult when a
\* statement raised
ScanSymbolBody(symbol, symbol_config, ticker) ==
    IF ticker.marketPrice.kind = "raise" THEN ExceptionResult
    ELSE
      LET current_price == CurrentPrice(ticker)
          close_price == ClosePrice(ticker)
          price_change_pct == PriceChangePct(current_price, close_price)
          opp == Classify(symbol_config, price_change_pct)
      IN  IF price_change_pct.den = 0 THEN ExceptionResult
          ELSE [kind |-> "result",
                symbol |-> symbol,
                current_price |-> current_price,
                close_price |-> close_price,
                price_change_pct |-> price_change_pct,
                has_opportunity |-> opp.has_opportunity,
                recommended_action |-> opp.recommended_action]

HandlerReraises(outcome) == outcome

\* lines 174-176: except Exception -> return None
ExceptHandler(outcome) ==
    IF outcome.kind = "Exception" THEN NoneResult ELSE outcome

---------------------------------------------------------------------------
(* is_premarket_hours, lines 40-88 *)

PREMARKET_START_HOUR == 4
PREMARKET_START_MINUTE == 0
PREMARKET_END_HOUR == 9
PREMARKET_END_MINUTE == 30

PremarketStart == PREMARKET_START_HOUR * 60 + PREMARKET_START_MINUTE

\* the calendar's regular open of a session (9:30 ET)
RegularOpen == PREMARKET_END_HOUR * 60 + PREMARKET_END_MINUTE

\* the instants datetime.now() is explored with
Times == {PremarketStart - 1, PremarketStart, RegularOpen}

\* where a calendar lookup fails: nowhere, or in one of the calls of lines 45-79
\* ("nat": a time-zone conversion that yields NaT)
Faults == {"get_calendar", "tz_convert", "nat", "is_session", "session_open"}

\* the calendar answers the scan orchestration is explored with
ScanCalendars ==
    {[fault |-> "none", is_session |-> TRUE, session_open |-> RegularOpen],
     [fault |-> "none", is_session |-> FALSE, session_open |-> RegularOpen],
     [fault |-> "get_calendar", is_session |-> TRUE, session_open |-> RegularOpen]}

Calendars ==
    {[fault |-> f, is_session |-> TRUE, session_open |-> RegularOpen] : f \in Faults}
    \cup {[fault |-> "none", is_session |-> b, session_open |-> RegularOpen] : b \in BOOLEAN}

\* no is_premarket_hours() call has been made yet
NoLookup == [fault |-> "unset", is_session |-> FALSE, session_open |-> 0]

\* a session whose calendar lookup succeeds
OpenSession == [fault |-> "none", is_session |-> TRUE, session_open |-> RegularOpen]

\* a regular open later than 9:30 ET (the exchange is a configuration value)
LateOpen == RegularOpen + 30

\* the instants and the calendar answers a direct is_premarket_hours() call is
\* explored with
GateTimes == {0, PremarketStart - 1, PremarketStart, PremarketStart + 1,
              RegularOpen - 1, RegularOpen, RegularOpen + 1,
              LateOpen - 1, LateOpen, LateOpen + 1, 1439}

GateCalendars ==
    {[fault |-> f, is_session |-> b, session_open |-> o] :
        f \in Faults \cup {"none"}, b \in BOOLEAN, o \in {RegularOpen, LateOpen}}

IsPremarketHoursFailsOpen(now_et, calendar) ==
    IF calendar.fault # "none" THEN TRUE
    ELSE IF ~calendar.is_session THEN FALSE
    ELSE PremarketStart <= now_et /\ now_et < calendar.session_open

IsPremarketHoursInclusive(now_et, calendar) ==
    IF calendar.fault # "none" THEN FALSE
    ELSE IF ~calendar.is_session THEN FALSE
    ELSE PremarketStart <= now_et /\ now_et <= calendar.session_open

IsPremarketHours(now_et, calendar) ==
    IF calendar.fault \in {"get_calendar", "tz_convert", "nat"} THEN FALSE
    ELSE IF calendar.fault = "is_session" THEN FALSE
    ELSE IF ~calendar.is_session THEN FALSE
    ELSE IF calendar.fault = "session_open" THEN FALSE
    ELSE PremarketStart <= now_et /\ now_et < calendar.session_open

---------------------------------------------------------------------------
(* scan_all_symbols, lines 245-278: fan-in and result processing *)

GatherCompletionOrder(task_list, completion) ==
    [i \in 1..Len(task_list) |-> task_list[completion[i]].result]

\* line 245: asyncio.gather returns the results in the order of the awaitables
\* it was given, whatever the order in which they finished
Gather(task_list, completion) ==
    [i \in 1..Len(task_list) |-> task_list[i].result]

\* line 245, return_exceptions=True: an exception a task raised is a result
ReturnExceptions == TRUE

GatherRaises(results) ==
    ~ReturnExceptions /\ \E i \in 1..Len(results) : results[i].kind = "Exception"

PostCheckAborts(open, results) ==
    [warning |-> IF open THEN {} ELSE {"expired during scan"},
     results |-> IF open THEN results ELSE <<>>]

\* lines 253-258: an expired window is logged, and the results are processed
\* all the same
PostCheck(open, results) ==
    [warning |-> IF open THEN {} ELSE {"expired during scan"},
     results |-> results]

RECURSIVE ProcessResultsSkipsNone(_, _, _)
ProcessResultsSkipsNone(symbols, results, n) ==
    IF n = 0
    THEN [scan_results |-> <<>>, successful_scans |-> 0, failed_scans |-> 0]
    ELSE LET acc == ProcessResultsSkipsNone(symbols, results, n - 1)
             symbol == symbols[n]
             result == results[n]
         IN  IF result.kind = "Exception"
             THEN [acc EXCEPT !.failed_scans = @ + 1]
             ELSE IF result.kind # "None"
             THEN [acc EXCEPT !.scan_results = DictSet(@, symbol, result),
                              !.successful_scans = @ + 1]
             ELSE acc

RECURSIVE ProcessResultsKeepsNone(_, _, _)
ProcessResultsKeepsNone(symbols, results, n) ==
    IF n = 0
    THEN [scan_results |-> <<>>, successful_scans |-> 0, failed_scans |-> 0]
    ELSE LET acc == ProcessResultsKeepsNone(symbols, results, n - 1)
             symbol == symbols[n]
             result == results[n]
         IN  IF result.kind = "Exception"
             THEN [acc EXCEPT !.failed_scans = @ + 1]
             ELSE IF result.kind # "None"
             THEN [acc EXCEPT !.scan_results = DictSet(@, symbol, result),
                              !.successful_scans = @ + 1]
             ELSE [acc EXCEPT !.scan_results = DictSet(@, symbol, result),
                              !.failed_scans = @ + 1]

\* lines 261-276, the loop over enumerate(results), after its first n iterations
RECURSIVE ProcessResults(_, _, _)
ProcessResults(symbols, results, n) ==
    IF n = 0
    THEN [scan_results |-> <<>>, successful_scans |-> 0, failed_scans |-> 0]
    ELSE LET acc == ProcessResults(symbols, results, n - 1)
             symbol == symbols[n]
             result == results[n]
         IN  IF result.kind = "Exception"
             THEN [acc EXCEPT !.failed_scans = @ + 1]
             ELSE IF result.kind # "None"
             THEN [acc EXCEPT !.scan_results = DictSet(@, symbol, result),
                              !.successful_scans = @ + 1]
             ELSE [acc EXCEPT !.failed_scans = @ + 1]

---------------------------------------------------------------------------
(* get_top_opportunities, lines 328-347 *)

Abs(x) == IF x < 0 THEN -x ELSE x

\* abs(a) > abs(b) for two floats that are not NaN
AbsGreater(a, b) == Abs(a.num) * b.den > Abs(b.num) * a.den

\* lines 338-340
Opportunities(results) == SelectSeq(Values(results), LAMBDA r : r.has_opportunity)

\* a stable insertion of r into a list sorted by abs(price_change_pct)
\* descending: r goes after every element whose key is not smaller
RECURSIVE InsertDesc(_, _)
InsertDesc(sorted, r) ==
    IF sorted = <<>> THEN <<r>>
    ELSE IF AbsGreater(r.price_change_pct, Head(sorted).price_change_pct)
    THEN <<r>> \o sorted
    ELSE <<Head(sorted)>> \o InsertDesc(Tail(sorted), r)

RECURSIVE InsertAsc(_, _)
InsertAsc(sorted, r) ==
    IF sorted = <<>> THEN <<r>>
    ELSE IF AbsGreater(Head(sorted).price_change_pct, r.price_change_pct)
    THEN <<r>> \o sorted
    ELSE <<Head(sorted)>> \o InsertAsc(Tail(sorted), r)

RECURSIVE SortAscending(_)
SortAscending(list) ==
    IF list = <<>> THEN <<>>
    ELSE InsertAsc(SortAscending(SubSeq(list, 1, Len(list) - 1)), list[Len(list)])

\* lines 343-345: list.sort(key=abs(price_change_pct), reverse=True), a stable sort
RECURSIVE SortByMagnitude(_)
SortByMagnitude(list) ==
    IF list = <<>> THEN <<>>
    ELSE InsertDesc(SortByMagnitude(SubSeq(list, 1, Len(list) - 1)), list[Len(list)])

SliceFromEnd(list, limit) ==
    IF limit >= 0
    THEN SubSeq(list, IF limit < Len(list) THEN Len(list) - limit + 1 ELSE 1, Len(list))
    ELSE SubSeq(list, 1, IF Len(list) + limit > 0 THEN Len(list) + limit ELSE 0)

\* list[:limit]
Slice(list, limit) ==
    IF limit >= 0
    THEN SubSeq(list, 1, IF limit < Len(list) THEN limit ELSE Len(list))
    ELSE SubSeq(list, 1, IF Len(list) + limit > 0 THEN Len(list) + limit ELSE 0)

TopOpportunities(results, limit) == Slice(SortByMagnitude(Opportunities(results)), limit)

\* get_opportunities_summary, lines 306-313: the results the table's rows show,
\* in the order of the rows
SummaryRows(results) == SortByMagnitude(Opportunities(results))

Limits == -1 .. MaxSymbols + 1

---------------------------------------------------------------------------
(* The scanner as a state machine *)

\* every ordered dict symbol -> configuration with at most MaxSymbols keys
Configs ==
    UNION {{d \in [1..n -> {Entry(k, ScanConfig(k)) : k \in Symbols}] :
               \A i, j \in 1..n : i # j => d[i].key # d[j].key} : n \in 0..MaxSymbols}

NoTicker == [kind |-> "unset"]

\* a coroutine scan_symbol(symbol) that has not run yet
NewTask(symbol) ==
    [symbol |-> symbol, status |-> "created", qualified |-> "unset",
     ticker |-> NoTicker, result |-> NoneResult,
     qualify_calls |-> 0, ticker_calls |-> 0]

NoTop == [called |-> "never", limit |-> 0, opportunities |-> <<>>]

\* no call has returned yet
Unreturned == [kind |-> "unset"]

\* EarningsDetector.__init__, MarketRegimeDetector.__init__ (current_regime is
\* None); no exchange_hours function has been called
InitOthers ==
    /\ earnings_date = Unreturned
    /\ expiry_str = Unreturned
    /\ current_regime = [kind |-> "None"]
    /\ metrics = Unreturned
    /\ hours_config = Unreturned
    /\ action = "unset"
    /\ slept = Unreturned

\* __init__, lines 35-38
Init ==
    /\ config \in Configs
    /\ now = PremarketStart - 1
    /\ window_open = FALSE
    /\ lookup = NoLookup
    /\ pc = "idle"
    /\ tasks = <<>>
    /\ completed = <<>>
    /\ scan_results = <<>>
    /\ report = <<>>
    /\ report_is_self = FALSE
    /\ successful_scans = 0
    /\ failed_scans = 0
    /\ log = {}
    /\ raised = FALSE
    /\ top = NoTop
    /\ InitOthers

\* a call of is_premarket_hours(): the clock is read, the calendar answers
CallIsPremarketHours ==
    \E t \in Times, calendar \in ScanCalendars :
        /\ t >= now
        /\ now' = t
        /\ lookup' = calendar
        /\ window_open' = IsPremarketHours(t, calendar)

\* scan_all_symbols returns `value`, a dict that is not self.scan_results
ReturnFresh(value) ==
    /\ pc' = "idle"
    /\ report' = value
    /\ report_is_self' = FALSE

\* scan_all_symbols, lines 184-212: the pre-check, and the creation of one
\* coroutine per configured symbol
ScanAllPreCheck ==
    /\ pc = "idle"
    /\ CallIsPremarketHours
    /\ completed' = <<>>
    /\ successful_scans' = 0
    /\ failed_scans' = 0
    /\ raised' = FALSE
    /\ IF ~window_open'
       THEN /\ log' = {"not in premarket hours"}
            /\ tasks' = <<>>
            /\ ReturnFresh(<<>>)
       ELSE IF Len(config) = 0
       THEN /\ log' = {"starting", "no symbols configured"}
            /\ tasks' = <<>>
            /\ ReturnFresh(<<>>)
       ELSE /\ log' = {"starting"}
            /\ tasks' = [i \in 1..Len(config) |-> NewTask(Keys(config)[i])]
            /\ pc' = "created"
            /\ UNCHANGED <<report, report_is_self>>
    /\ UNCHANGED <<others, config, scan_results, top>>

SafetyCheckFallsThrough ==
    /\ log' = log \cup {"expired before scan started"}
    /\ pc' = "gathering"
    /\ tasks' = [i \in 1..Len(tasks) |-> [tasks[i] EXCEPT !.status = "scheduled"]]
    /\ UNCHANGED <<report, report_is_self>>

\* lines 216-218: the window closed between the two checks; the coroutines
\* are never awaited
SafetyCheckExpired ==
    /\ log' = log \cup {"expired before scan started"}
    /\ ReturnFresh(<<>>)
    /\ UNCHANGED tasks

\* scan_all_symbols, lines 214-245: the second check, then the await of gather,
\* which schedules the coroutines
ScanAllSafetyCheck ==
    /\ pc = "created"
    /\ CallIsPremarketHours
    /\ IF ~window_open'
       THEN SafetyCheckExpired
       ELSE /\ pc' = "gathering"
            /\ tasks' = [i \in 1..Len(tasks) |-> [tasks[i] EXCEPT !.status = "scheduled"]]
            /\ UNCHANGED <<log, report, report_is_self>>
    /\ UNCHANGED <<others, config, completed, scan_results, successful_scans,
                   failed_scans, raised, top>>

QualifiedAnyway(qualified) == FALSE

\* line 107: `if not qualified`, for the list qualify_contracts returned
NotQualified(qualified) == qualified = "empty"

TaskRetries(i, locals, outcome) ==
    /\ tasks' = [tasks EXCEPT ![i] =
                    IF outcome.kind = "result"
                    THEN [locals EXCEPT !.status = "done", !.result = outcome]
                    ELSE [locals EXCEPT !.status = "scheduled"]]
    /\ completed' = IF outcome.kind = "result" THEN Append(completed, i) ELSE completed
    /\ UNCHANGED <<scan_results, report>>

\* the coroutine of position i, whose locals are `locals`, returns `outcome`
\* (lines 109, 118, 171-172, 176)
TaskReturns(i, locals, outcome) ==
    LET result == ExceptHandler(outcome)
        written == IF outcome.kind = "result"
                   THEN DictSet(scan_results, tasks[i].symbol, outcome)
                   ELSE scan_results
    IN  /\ tasks' = [tasks EXCEPT ![i] = [locals EXCEPT !.status = "done",
                                                        !.result = result]]
        /\ completed' = Append(completed, i)
        /\ scan_results' = written
        /\ report' = IF report_is_self THEN written ELSE report

\* scan_symbol, lines 102-105: the task starts and awaits qualify_contracts
TaskStart(i) ==
    /\ tasks[i].status = "scheduled"
    /\ tasks' = [tasks EXCEPT ![i].status = "qualifying", ![i].qualify_calls = @ + 1]
    /\ UNCHANGED <<others, config, now, window_open, lookup, pc, completed, scan_results, report,
                   report_is_self, successful_scans, failed_scans, log, raised, top>>

\* scan_symbol, lines 105-114: qualify_contracts answers; the task returns None
\* or awaits get_ticker_for_contract
TaskQualified(i) ==
    /\ tasks[i].status = "qualifying"
    /\ \E qualified \in QualifyResponses :
        CASE qualified = "raise" ->
                TaskReturns(i, [tasks[i] EXCEPT !.qualified = qualified], ExceptionResult)
          [] NotQualified(qualified) ->
                TaskReturns(i, [tasks[i] EXCEPT !.qualified = qualified], NoneResult)
          [] OTHER ->
                /\ tasks' = [tasks EXCEPT ![i].status = "fetching",
                                          ![i].qualified = qualified,
                                          ![i].ticker_calls = @ + 1]
                /\ UNCHANGED <<completed, scan_results, report>>
    /\ UNCHANGED <<others, config, now, window_open, lookup, pc, report_is_self, successful_scans,
                   failed_scans, log, raised, top>>

\* scan_symbol, lines 114-176: get_ticker_for_contract answers; the task returns
TaskTicker(i, tickers) ==
    /\ tasks[i].status = "fetching"
    /\ \E ticker \in TickerResponses(tickers) :
        CASE ticker.kind = "raise" ->
                TaskReturns(i, [tasks[i] EXCEPT !.ticker = ticker], ExceptionResult)
          [] ticker.kind = "None" ->
                TaskReturns(i, [tasks[i] EXCEPT !.ticker = ticker], NoneResult)
          [] OTHER ->
                TaskReturns(i, [tasks[i] EXCEPT !.ticker = ticker],
                            ScanSymbolBody(tasks[i].symbol,
                                           DictGet(config, tasks[i].symbol, NoneConfig),
                                           ticker))
    /\ UNCHANGED <<others, config, now, window_open, lookup, pc, report_is_self, successful_scans,
                   failed_scans, log, raised, top>>

GatherReturnsOnFirst == \E i \in 1..Len(tasks) : tasks[i].status = "done"

\* line 245: the await of asyncio.gather resumes once every coroutine it was
\* given is done
GatherReturns == \A i \in 1..Len(tasks) : tasks[i].status = "done"

\* scan_all_symbols, lines 245-286: every task is done, gather returns; the
\* post-check, the processing of the results, the return
ScanAllCollect ==
    /\ pc = "gathering"
    /\ GatherReturns
    /\ CallIsPremarketHours
    /\ LET gathered == Gather(tasks, completed)
           checked == PostCheck(window_open', gathered)
           processed == ProcessResults(Keys(config), checked.results,
                                       Len(checked.results))
       IN  IF GatherRaises(gathered)
           THEN /\ raised' = TRUE
                /\ pc' = "idle"
                /\ UNCHANGED <<scan_results, report, report_is_self,
                               successful_scans, failed_scans, log>>
           ELSE /\ scan_results' = processed.scan_results
                /\ report' = processed.scan_results
                /\ report_is_self' = TRUE
                /\ successful_scans' = processed.successful_scans
                /\ failed_scans' = processed.failed_scans
                /\ log' = log \cup checked.warning \cup {"completed"}
                /\ pc' = "idle"
                /\ UNCHANGED raised
    /\ UNCHANGED <<others, config, tasks, completed, top>>

\* get_top_opportunities(limit), lines 328-347; it has no await, so it runs
\* whenever scan_all_symbols is not between two of its own awaits
GetTopOpportunities ==
    /\ pc \in {"idle", "gathering"}
    /\ \E limit \in Limits :
        top' = [called |-> "get_top_opportunities", limit |-> limit,
                opportunities |-> TopOpportunities(scan_results, limit)]
    /\ UNCHANGED <<others, config, now, window_open, lookup, pc, tasks, completed, scan_results,
                   report, report_is_self, successful_scans, failed_scans, log,
                   raised>>

\* get_opportunities_summary(), lines 288-326: the rows of the table
GetOpportunitiesSummary ==
    /\ pc \in {"idle", "gathering"}
    /\ top' = [called |-> "get_opportunities_summary", limit |-> 0,
               opportunities |-> SummaryRows(scan_results)]
    /\ UNCHANGED <<others, config, now, window_open, lookup, pc, tasks, completed, scan_results,
                   report, report_is_self, successful_scans, failed_scans, log,
                   raised>>

\* The scan orchestration: scan_all_symbols and the tasks it runs
Next ==
    \/ ScanAllPreCheck
    \/ ScanAllSafetyCheck
    \/ \E i \in 1..Len(tasks) : TaskStart(i)
    \/ \E i \in 1..Len(tasks) : TaskQualified(i)
    \/ \E i \in 1..Len(tasks) : TaskTicker(i, ScanTickers)
    \/ ScanAllCollect

Spec == Init /\ [][Next]_vars

\* A single scan_symbol(symbol) call, over every configuration of the symbol
\* (and none) and every ticker
InitScanSymbol ==
    /\ config \in {<<>>} \cup {<<Entry("A", c)>> : c \in SymbolConfigs}
    /\ now = PremarketStart
    /\ window_open = TRUE
    /\ lookup = OpenSession
    /\ pc = "idle"
    /\ tasks = <<[NewTask("A") EXCEPT !.status = "scheduled"]>>
    /\ completed = <<>>
    /\ scan_results = <<>>
    /\ report = <<>>
    /\ report_is_self = FALSE
    /\ successful_scans = 0
    /\ failed_scans = 0
    /\ log = {}
    /\ raised = FALSE
    /\ top = NoTop
    /\ InitOthers

NextScanSymbol ==
    \/ \E i \in 1..Len(tasks) : TaskStart(i)
    \/ \E i \in 1..Len(tasks) : TaskQualified(i)
    \/ \E i \in 1..Len(tasks) : TaskTicker(i, AllTickers)

\* The first scan_all_symbols call of a scanner, when the event loop runs
\* every coroutine that can run and every collaborator call returns or raises
\* in the end
NextFirstScan ==
    \/ log = {} /\ ScanAllPreCheck
    \/ ScanAllSafetyCheck
    \/ \E i \in 1..Len(tasks) : TaskStart(i)
    \/ \E i \in 1..Len(tasks) : TaskQualified(i)
    \/ \E i \in 1..Len(tasks) : TaskTicker(i, ScanTickers)
    \/ ScanAllCollect

SpecFair ==
    /\ Init
    /\ [][NextFirstScan]_vars
    /\ WF_vars(ScanAllSafetyCheck)
    /\ WF_vars(\E i \in 1..Len(tasks) : TaskStart(i))
    /\ WF_vars(\E i \in 1..Len(tasks) : TaskQualified(i))
    /\ WF_vars(\E i \in 1..Len(tasks) : TaskTicker(i, ScanTickers))
    /\ WF_vars(ScanAllCollect)

SpecScanSymbol == InitScanSymbol /\ [][NextScanSymbol]_vars

\* The ranking of the results a scan has left in self.scan_results
RankTickers ==
    {Ticker(Attr("num", 98), Attr("num", 100)),
     Ticker(Attr("num", 102), Attr("num", 100)),
     Ticker(Attr("num", 97), Attr("num", 100)),
     Ticker(Attr("num", 99), Attr("num", 100)),
     Ticker(Attr("num", 49), Attr("num", 50))}

RankResults(symbol) ==
    {ScanSymbolBody(symbol, ScanConfig(symbol), ticker) : ticker \in RankTickers}

InitRank ==
    /\ config \in Configs
    /\ scan_results \in
          {d \in [1..Len(config) -> UNION {{Entry(k, r) : r \in RankResults(k)} : k \in Symbols}] :
              \A i \in 1..Len(config) : d[i].key = config[i].key}
    /\ now = PremarketStart
    /\ window_open = TRUE
    /\ lookup = OpenSession
    /\ pc = "idle"
    /\ tasks = <<>>
    /\ completed = <<>>
    /\ report = scan_results
    /\ report_is_self = TRUE
    /\ successful_scans = Len(config)
    /\ failed_scans = 0
    /\ log = {"starting", "completed"}
    /\ raised = FALSE
    /\ top = NoTop
    /\ InitOthers

NextRank ==
    \/ GetTopOpportunities
    \/ GetOpportunitiesSummary

SpecRank == InitRank /\ [][NextRank]_vars

\* A direct call of is_premarket_hours(), lines 40-88, at any instant of a day
\* and with any answer of the calendar
CallGate ==
    /\ pc = "idle"
    /\ \E t \in GateTimes, calendar \in GateCalendars :
          /\ now' = t
          /\ lookup' = calendar
          /\ window_open' = IsPremarketHours(t, calendar)
    /\ UNCHANGED <<others, config, pc, tasks, completed, scan_results, report, report_is_self,
                   successful_scans, failed_scans, log, raised, top>>

InitGate ==
    /\ config = <<>>
    /\ now = 0
    /\ window_open = FALSE
    /\ lookup = NoLookup
    /\ pc = "idle"
    /\ tasks = <<>>
    /\ completed = <<>>
    /\ scan_results = <<>>
    /\ report = <<>>
    /\ report_is_self = FALSE
    /\ successful_scans = 0
    /\ failed_scans = 0
    /\ log = {}
    /\ raised = FALSE
    /\ top = NoTop
    /\ InitOthers

NextGate == CallGate

SpecGate == InitGate /\ [][NextGate]_vars

\* A session of the scanner's caller: scans, and between them reads of the
\* ranking and of the table
NextSession ==
    \/ Next
    \/ pc = "idle" /\ GetTopOpportunities
    \/ pc = "idle" /\ GetOpportunitiesSummary

SpecSession == Init /\ [][NextSession]_vars

\* One scan of three symbols whose gates are unset, with fixed collaborator
\* answers; prices are in cents: A closed at 150.00 and trades at 147.00,
\* B closed at 100.00 and trades at 100.50, the quote of C cannot be fetched
DefaultConfig == [kind |-> "SymbolConfig", puts |-> Unset, calls |-> Unset]

ScenarioConfig ==
    <<Entry("A", DefaultConfig), Entry("B", DefaultConfig), Entry("C", DefaultConfig)>>

ScenarioTickers ==
    {Ticker(Attr("num", 14700), Attr("num", 15000)),
     Ticker(Attr("num", 10050), Attr("num", 10000))}

ScenarioQuotes(symbol) ==
    CASE symbol = "A" -> {Ticker(Attr("num", 14700), Attr("num", 15000))}
      [] symbol = "B" -> {Ticker(Attr("num", 10050), Attr("num", 10000))}
      [] OTHER -> {[kind |-> "raise"], [kind |-> "None"]}

InitScenario ==
    /\ config = ScenarioConfig
    /\ now = PremarketStart - 1
    /\ window_open = FALSE
    /\ lookup = NoLookup
    /\ pc = "idle"
    /\ tasks = <<>>
    /\ completed = <<>>
    /\ scan_results = <<>>
    /\ report = <<>>
    /\ report_is_self = FALSE
    /\ successful_scans = 0
    /\ failed_scans = 0
    /\ log = {}
    /\ raised = FALSE
    /\ top = NoTop
    /\ InitOthers

\* the window is open at every check, every symbol is qualified, every quote
\* is the one of the scenario; the ranking is read after the scan
NextScenario ==
    \/ ScanAllPreCheck /\ window_open'
    \/ ScanAllSafetyCheck /\ window_open'
    \/ \E i \in 1..Len(tasks) : TaskStart(i)
    \/ \E i \in 1..Len(tasks) : TaskQualified(i) /\ tasks'[i].qualified = "qualified"
    \/ \E i \in 1..Len(tasks) :
          TaskTicker(i, ScenarioTickers) /\ tasks'[i].ticker \in ScenarioQuotes(tasks[i].symbol)
    \/ ScanAllCollect /\ window_open'
    \/ pc = "idle" /\ "completed" \in log /\ GetTopOpportunities
    \/ pc = "idle" /\ "completed" \in log /\ GetOpportunitiesSummary

SpecScenario == InitScenario /\ [][NextScenario]_vars

---------------------------------------------------------------------------
(* earnings_detector.py: EarningsDetector.get_same_week_expiry               *)

\* the scanner's own state, which the other modules leave alone
scanner == <<config, now, window_open, lookup, pc, tasks, completed, scan_results, report,
             report_is_self, successful_scans, failed_scans, log, raised, top>>

\* Dates are day numbers: day 1 is Monday 2024-12-23, day 10 is 2025-01-01
FirstDay == 23
DaysInDecember == 31

\* the earnings dates and the dates of "today" the function is explored with
EarningsDays == 1..14

\* date.weekday(): Monday is 0
Weekday(day) == (day - 1) % 7

\* date.strftime("%Y%m%d")
Strftime(day) ==
    IF FirstDay + day - 1 <= DaysInDecember
    THEN ToString(20241200 + FirstDay + day - 1)
    ELSE ToString(20250100 + FirstDay + day - 1 - DaysInDecember)

\* the argument: a datetime.datetime, as annotated, or a datetime.date
EarningsDates == {[type |-> t, day |-> d] : t \in {"datetime", "date"}, d \in EarningsDays}

TargetDtes == {0, 45}

\* lines 64-70
ExpiryDate(day) ==
    LET days_until_friday == (4 - Weekday(day)) % 7
    IN  IF days_until_friday = 0 /\ Weekday(day) = 4
        THEN day
        ELSE day + days_until_friday

\* lines 61-87; at line 76 expiry_date - datetime.now(timezone.utc).date()
\* subtracts a date from expiry_date: for a datetime that is a TypeError,
\* which the handler of lines 85-87 turns into None
GetSameWeekExpiry(date, target_dte, today) ==
    LET expiry_date == ExpiryDate(date.day)
        days_diff == expiry_date - today
    IN  IF date.type = "datetime"
        THEN [kind |-> "None"]
        ELSE [kind |-> "str", v |-> Strftime(expiry_date), days_diff |-> days_diff,
              warned |-> Abs(days_diff - target_dte) > 7]

\* a call of get_same_week_expiry(earnings_date, target_dte)
CallGetSameWeekExpiry ==
    /\ \E date \in EarningsDates, target_dte \in TargetDtes, today \in EarningsDays :
          /\ earnings_date' = date
          /\ expiry_str' = GetSameWeekExpiry(date, target_dte, today)
    /\ UNCHANGED <<scanner, current_regime, metrics, hours_config, action, slept>>

NextExpiry == CallGetSameWeekExpiry

SpecExpiry == InitGate /\ [][NextExpiry]_vars

---------------------------------------------------------------------------
(* market_regime.py: MarketRegimeDetector                                    *)
(* vix_level is a float [nan, v]; spy_trend, volatility and confidence are   *)
(* exact rationals [nan, num, den]; the multiplier and the delta adjustment  *)
(* are in hundredths (1.1 is 110, -0.05 is -5).                              *)

Rational(num, den) == [nan |-> FALSE, num |-> num, den |-> den]
RationalNaN == [nan |-> TRUE, num |-> 0, den |-> 1]

\* await self.ibkr.get_ticker_for_stock("VIX", ""): raises, a falsy value, or
\* a ticker whose marketPrice() raises, is NaN or is a number
VixResponses ==
    {[kind |-> "raise"], [kind |-> "None"]} \cup
    {[kind |-> "Ticker", marketPrice |-> mp] :
        mp \in {Attr("raise", 0), Attr("nan", 0)} \cup
               {Attr("num", v) : v \in {10, 17, 18, 20, 30, 31, 35, 36, 40, 41}}}

\* await self.ibkr.get_ticker_for_stock("SPY", "")
SpyResponses ==
    {[kind |-> "raise"], [kind |-> "None"],
     [kind |-> "Ticker", marketPrice |-> Attr("raise", 0)],
     [kind |-> "Ticker", marketPrice |-> Attr("num", 500)]}

\* await self.ib.reqHistoricalDataAsync(...): raises, no bars, fewer than 10
\* bars, or bars with the averages ma_10 and ma_20 of their closes
BarsResponses ==
    {[kind |-> "raise"], [kind |-> "empty"], [kind |-> "short"]} \cup
    {[kind |-> "bars", ma_10 |-> a, ma_20 |-> 1000] : a \in {970, 990, 996, 1000, 1004, 1010, 1030}}
    \cup {[kind |-> "bars", ma_10 |-> 0, ma_20 |-> 0]}

\* line 60
VixLevel(vix_ticker) ==
    CASE vix_ticker.kind = "None" -> FNum(20)
      [] vix_ticker.marketPrice.kind = "nan" -> FNaN
      [] OTHER -> FNum(vix_ticker.marketPrice.v)

\* lines 68-91
SpyTrend(bars) ==
    IF bars.kind = "bars" /\ bars.ma_20 > 0
    THEN Rational(bars.ma_10 - bars.ma_20, bars.ma_20)
    ELSE Rational(0, 1)

\* line 95: abs(spy_trend) * 100
Volatility(spy_trend) == Rational(Abs(spy_trend.num) * 100, spy_trend.den)

\* vix_level > k and vix_level < k (false for NaN)
VixAbove(vix_level, k) == ~vix_level.nan /\ vix_level.v > k
VixBelow(vix_level, k) == ~vix_level.nan /\ vix_level.v < k

\* spy_trend > p / q, spy_trend < p / q, abs(spy_trend) < p / q, for q > 0
TrendAbove(t, p, q) == t.num * q > p * t.den
TrendBelow(t, p, q) == t.num * q < p * t.den
TrendWithin(t, p, q) == Abs(t.num) * q < p * t.den

\* lines 129-151
ClassifyRegime(vix_level, spy_trend, volatility) ==
    IF VixAbove(vix_level, 30) THEN "high_volatility"
    ELSE IF TrendAbove(spy_trend, 1, 100) /\ VixBelow(vix_level, 20) THEN "bull"
    ELSE IF TrendBelow(spy_trend, -1, 100) /\ VixAbove(vix_level, 20) THEN "bear"
    ELSE IF TrendWithin(spy_trend, 5, 1000) /\ VixAbove(vix_level, 15) /\ VixBelow(vix_level, 25)
    THEN "sideways"
    ELSE "sideways"

\* lines 153-164; min(nan, 1.0) is nan
CalculateConfidence(vix_level, spy_trend, volatility) ==
    IF vix_level.nan THEN RationalNaN
    ELSE LET distance == Abs(vix_level.v - 20)
             vix_confidence == IF distance < 20 THEN distance ELSE 20
             trend == Abs(spy_trend.num) * 50
             trend_confidence == IF trend < spy_trend.den THEN trend ELSE spy_trend.den
         IN  Rational(vix_confidence * spy_trend.den + trend_confidence * 20,
                      40 * spy_trend.den)

RegimeMetrics(regime, vix_level, spy_trend, volatility, confidence) ==
    [kind |-> "RegimeMetrics", regime |-> regime, vix_level |-> vix_level,
     spy_trend |-> spy_trend, volatility |-> volatility, confidence |-> confidence]

\* lines 121-127
DefaultRegime ==
    RegimeMetrics("unknown", FNum(20), Rational(0, 1), Rational(15, 1), Rational(0, 1))

\* lines 57-107: the metrics, or ExceptionResult when a statement raised
DetectRegimeBody(vix_ticker, spy_ticker, bars) ==
    IF \/ vix_ticker.kind = "raise"
       \/ (vix_ticker.kind = "Ticker" /\ vix_ticker.marketPrice.kind = "raise")
       \/ spy_ticker.kind = "raise"
       \/ (spy_ticker.kind = "Ticker" /\ spy_ticker.marketPrice.kind = "raise")
    THEN ExceptionResult
    ELSE LET vix_level == VixLevel(vix_ticker)
             spy_trend == SpyTrend(bars)
             volatility == Volatility(spy_trend)
         IN  RegimeMetrics(ClassifyRegime(vix_level, spy_trend, volatility),
                           vix_level, spy_trend, volatility,
                           CalculateConfidence(vix_level, spy_trend, volatility))

StoredWithDefault(stored, outcome) ==
    IF outcome.kind = "Exception" THEN DefaultRegime ELSE outcome

\* line 109: self.current_regime after the call; the handler of lines 118-127
\* does not assign it
Stored(stored, outcome) ==
    IF outcome.kind = "Exception" THEN stored ELSE outcome

\* lines 116 and 121-127: what detect_regime returns
Returned(outcome) ==
    IF outcome.kind = "Exception" THEN DefaultRegime ELSE outcome

\* lines 166-184
ShouldTrade(regime) ==
    IF regime.kind = "None" THEN TRUE
    ELSE IF regime.regime = "high_volatility" /\ VixAbove(regime.vix_level, 40) THEN FALSE
    ELSE TRUE

\* lines 186-208, in hundredths
GetPositionSizeMultiplier(regime) ==
    IF regime.kind = "None" THEN 100
    ELSE IF regime.regime = "high_volatility" /\ VixAbove(regime.vix_level, 35) THEN 50
    ELSE IF regime.regime = "high_volatility" /\ VixAbove(regime.vix_level, 30) THEN 75
    ELSE IF regime.regime = "bull" /\ VixBelow(regime.vix_level, 18) THEN 110
    ELSE 100

\* lines 210-228, in hundredths
GetDeltaAdjustment(regime) ==
    IF regime.kind = "None" THEN 0
    ELSE IF regime.regime = "high_volatility" THEN -5
    ELSE IF regime.regime = "bull" THEN 2
    ELSE 0

\* a call of detect_regime(), lines 49-127
DetectRegime ==
    /\ \E vix_ticker \in VixResponses, spy_ticker \in SpyResponses, bars \in BarsResponses :
          LET outcome == DetectRegimeBody(vix_ticker, spy_ticker, bars)
          IN  /\ current_regime' = Stored(current_regime, outcome)
              /\ metrics' = Returned(outcome)
    /\ UNCHANGED <<scanner, earnings_date, expiry_str, hours_config, action, slept>>

NextRegime == DetectRegime

SpecRegime == InitGate /\ [][NextRegime]_vars

---------------------------------------------------------------------------
(* exchange_hours.py: determine_action, waited_for_open, need_to_exit        *)
(* `now` is in minutes after midnight America/New_York of a day d; durations *)
(* (the delays, max_wait_until_open, the sleep) are in minutes. The calendar *)
(* knows the exchange and the days asked about, so that the lookups outside  *)
(* the handler of lines 24-38 answer; day d + 2 is a session.                *)

\* the close of a regular session (16:00 ET)
RegularClose == 16 * 60

\* the instant of day d at which the UTC date becomes that of day d + 1
UtcMidnight == 19 * 60

MinutesPerDay == 24 * 60

HoursConfigs ==
    {[action_when_closed |-> a, enable_extended_hours |-> e, enable_premarket_scanner |-> p,
      delay_after_open |-> dao, delay_before_close |-> dbc, max_wait_until_open |-> w] :
        a \in {"continue", "exit", "wait"}, e \in BOOLEAN, p \in BOOLEAN,
        dao \in {0, 30}, dbc \in {0, 30}, w \in {60, 3000}}

\* the instants need_to_exit is explored with
HoursTimes ==
    {0, PremarketStart - 1, PremarketStart, RegularOpen - 1, RegularOpen, RegularOpen + 29,
     RegularOpen + 30, RegularClose - 30, RegularClose - 29, RegularClose, RegularClose + 1,
     UtcMidnight - 1, UtcMidnight, MinutesPerDay - 1}

\* the calendar's answers: whether day d and day d + 1 are sessions, the open
\* and the close of a session, and whether the time-zone conversion of line 26
\* fails
HoursCalendars ==
    {[fault |-> f, is_session |-> b, tomorrow |-> t,
      session_open |-> o, session_close |-> RegularClose] :
        f \in {"none", "tz_convert"}, b \in BOOLEAN, t \in BOOLEAN,
        o \in {RegularOpen, LateOpen}}

\* line 18, line 76: now.date() of the UTC instant, as a number of days after d
Today(now_et) == IF now_et < UtcMidnight THEN 0 ELSE 1

\* calendar.is_session(day), calendar.session_open(day), calendar.session_close(day)
IsSession(calendar, day) ==
    CASE day = 0 -> calendar.is_session
      [] day = 1 -> calendar.tomorrow
      [] OTHER -> TRUE

SessionOpen(calendar, day) == calendar.session_open + day * MinutesPerDay
SessionClose(calendar, day) == calendar.session_close + day * MinutesPerDay

\* calendar.date_to_session(day, direction="next")
RECURSIVE DateToSession(_, _)
DateToSession(calendar, day) ==
    IF IsSession(calendar, day) THEN day ELSE DateToSession(calendar, day + 1)

\* line 27: now_et.replace(hour=4, minute=0, second=0, microsecond=0)
premarket_start == 4 * 60 + 0

InPremarketExtendedOnly(conf, now_et, calendar) ==
    /\ calendar.fault = "none"
    /\ IsSession(calendar, Today(now_et))
    /\ premarket_start <= now_et
    /\ now_et < SessionOpen(calendar, Today(now_et))
    /\ conf.enable_extended_hours

\* lines 24-38: the premarket branch returns "continue"
InPremarket(conf, now_et, calendar) ==
    /\ calendar.fault = "none"
    /\ IsSession(calendar, Today(now_et))
    /\ premarket_start <= now_et
    /\ now_et < SessionOpen(calendar, Today(now_et))
    /\ conf.enable_premarket_scanner

WithinHoursExclusive(start, now_et, end) == start <= now_et /\ now_et < end

\* line 58: start <= now <= end
WithinHours(start, now_et, end) == start <= now_et /\ now_et <= end

\* lines 13-71
DetermineAction(conf, now_et, calendar) ==
    LET today == Today(now_et)
        start == SessionOpen(calendar, today) + conf.delay_after_open
        end == SessionClose(calendar, today) - conf.delay_before_close
    IN  IF conf.action_when_closed = "continue" THEN "continue"
        ELSE IF /\ (conf.enable_extended_hours \/ conf.enable_premarket_scanner)
                /\ InPremarket(conf, now_et, calendar)
        THEN "continue"
        ELSE IF IsSession(calendar, today)
        THEN (IF WithinHours(start, now_et, end) THEN "continue"
              ELSE IF conf.action_when_closed = "exit" THEN "exit"
              ELSE IF conf.action_when_closed = "wait" THEN "wait"
              ELSE "exit")
        ELSE IF conf.action_when_closed = "wait" THEN "wait"
        ELSE "exit"

NotCalled == [kind |-> "not called", seconds_until_start |-> 0]

\* lines 74-96: time.sleep(seconds) raises ValueError for a negative argument
WaitedForOpen(conf, now_et, calendar) ==
    LET next_session == DateToSession(calendar, Today(now_et))
        start == SessionOpen(calendar, next_session) + conf.delay_after_open
        seconds_until_start == start - now_et
    IN  IF seconds_until_start < conf.max_wait_until_open
        THEN [kind |-> IF seconds_until_start < 0 THEN "sleep raised" ELSE "slept",
              seconds_until_start |-> seconds_until_start]
        ELSE [kind |-> "max wait exceeded", seconds_until_start |-> seconds_until_start]

\* lines 99-108: what need_to_exit returns ("raise" when the sleep raised)
NeedToExit(determined, waited) ==
    CASE determined = "exit" -> "True"
      [] determined = "wait" ->
            (CASE waited.kind = "slept" -> "False"
               [] waited.kind = "sleep raised" -> "raise"
               [] OTHER -> "True")
      [] OTHER -> "False"

\* the call of need_to_exit(config) of a run, and of the scanner's
\* is_premarket_hours() at the same instant with the same answers of the
\* calendar; the functions keep no state between calls
CallNeedToExit ==
    /\ action = "unset"
    /\ \E cfg \in HoursConfigs, t \in HoursTimes, calendar \in HoursCalendars :
          /\ hours_config' = cfg
          /\ now' = t
          /\ lookup' = calendar
          /\ window_open' = IsPremarketHours(t, calendar)
          /\ action' = DetermineAction(cfg, t, calendar)
          /\ slept' = IF action' = "wait" THEN WaitedForOpen(cfg, t, calendar) ELSE NotCalled
    /\ UNCHANGED <<config, pc, tasks, completed, scan_results, report, report_is_self,
                   successful_scans, failed_scans, log, raised, top,
                   earnings_date, expiry_str, current_regime, metrics>>

NextHours == CallNeedToExit

SpecHours == InitGate /\ [][NextHours]_vars

---------------------------------------------------------------------------
(* Properties of the scan orchestration (Spec)                              *)

\* a scan_all_symbols call has returned after the fan-out and the fan-in
ScanCompleted == pc = "idle" /\ "completed" \in log

\* a scan_all_symbols call has returned because a window check found it closed
WindowClosedAtStart ==
    log \cap {"not in premarket hours", "expired before scan started"} # {}

\* the flags of the report, as the log lines of the call give them
WindowValidAtStart == log # {} /\ ~WindowClosedAtStart
WindowValidAtEnd == "expired during scan" \notin log

TaskIndexes == 1..Len(tasks)
Succeeded(i) == tasks[i].status = "done" /\ tasks[i].result.kind = "result"
Failed(i) == tasks[i].status = "done" /\ tasks[i].result.kind # "result"

\* C1, as claimed: after every scan_all_symbols call, whatever its path,
\* successful_scans + failed_scans equals the number of configured symbols.
C1_CountsAddUpInEveryCall ==
    (pc = "idle" /\ log # {}) => successful_scans + failed_scans = Len(config)

\* C1, amended: after every scan_all_symbols call that passed both window
\* checks, whatever tasks failed, successful_scans + failed_scans equals the
\* number of configured symbols, the successes being the tasks that returned a
\* result; a call that found the window closed counts 0 and 0.
C1_CountsAddUpWhenDispatched ==
    /\ ScanCompleted =>
          /\ successful_scans + failed_scans = Len(config)
          /\ successful_scans = Cardinality({i \in TaskIndexes : Succeeded(i)})
          /\ failed_scans = Cardinality({i \in TaskIndexes : Failed(i)})
    /\ (pc = "idle" /\ WindowClosedAtStart) => successful_scans + failed_scans = 0

\* C1 witness: a completed scan in which one task failed and another succeeded
C1_Witness ==
    /\ ScanCompleted
    /\ \E i, j \in TaskIndexes : Failed(i) /\ Succeeded(j)
    /\ successful_scans + failed_scans = Len(config)

\* C2: when a window check finds the window closed (the first check, or the
\* second one after the coroutines were created), the call has returned an
\* empty dict, no coroutine has run (no qualify_contracts or
\* get_ticker_for_contract call was made), the counters are 0, nothing was
\* raised and the call is not reported as having started in the window.
C2_ClosedWindowDispatchesNothing ==
    WindowClosedAtStart =>
        /\ pc = "idle"
        /\ report = <<>>
        /\ ~report_is_self
        /\ successful_scans = 0
        /\ failed_scans = 0
        /\ ~raised
        /\ ~WindowValidAtStart
        /\ "completed" \notin log
        /\ \A i \in TaskIndexes :
              /\ tasks[i].status = "created"
              /\ tasks[i].qualify_calls = 0
              /\ tasks[i].ticker_calls = 0

\* C2 witness: the window closed between the first check and the fan-out, with
\* coroutines already created
C2_Witness ==
    /\ "expired before scan started" \in log
    /\ Len(tasks) > 0
    /\ report = <<>>

\* the entries scan_all_symbols builds from the tasks that returned a result,
\* in the order of the symbols
RECURSIVE ExpectedEntries(_)
ExpectedEntries(n) ==
    IF n = 0 THEN <<>>
    ELSE IF Succeeded(n)
    THEN Append(ExpectedEntries(n - 1), Entry(tasks[n].symbol, tasks[n].result))
    ELSE ExpectedEntries(n - 1)

\* C3: a scan that passed both window checks returns only after every task
\* is done (none is cancelled), its report holds the result of every task that
\* returned one, also when the post-check found the window closed, and the
\* "expired during scan" warning is logged exactly when the post-check found
\* the window closed.
C3_ClosedAtEndKeepsOutcomes ==
    ScanCompleted =>
        /\ \A i \in TaskIndexes : tasks[i].status = "done"
        /\ Len(tasks) = Len(config)
        /\ report = ExpectedEntries(Len(tasks))
        /\ WindowValidAtEnd <=> window_open

\* C3 witness: a completed scan whose post-check found the window closed and
\* whose report is not empty
C3_Witness ==
    /\ ScanCompleted
    /\ ~window_open
    /\ ~WindowValidAtEnd
    /\ report # <<>>

\* C4: no exception leaves scan_all_symbols or a task: a task in which the
\* market-data call raised returns None (a failure, absent from the report), and
\* every task that returned a result has that result in the report under its
\* own symbol, whatever the other tasks did.
C4_TaskExceptionIsIsolated ==
    /\ ~raised
    /\ \A i \in TaskIndexes :
          tasks[i].status = "done" =>
              /\ tasks[i].result.kind \in {"None", "result"}
              /\ tasks[i].ticker.kind = "raise" => tasks[i].result = NoneResult
    /\ ScanCompleted =>
          \A i \in TaskIndexes :
              /\ Succeeded(i) =>
                    /\ HasKey(report, tasks[i].symbol)
                    /\ DictGet(report, tasks[i].symbol, NoneResult) = tasks[i].result
              /\ Failed(i) => ~HasKey(report, tasks[i].symbol)

\* C4 witness: a completed scan in which one task's market-data call raised and another task's
\* result is in the report
C4_Witness ==
    /\ ScanCompleted
    /\ \E i, j \in TaskIndexes :
          /\ tasks[i].ticker.kind = "raise"
          /\ Succeeded(j)
          /\ HasKey(report, tasks[j].symbol)

\* C5, as claimed: after a scan that found the window open, the returned dict
\* has an entry for every configured symbol, a failed one included.
C5_EverySymbolHasAnOutcome ==
    ScanCompleted => \A i \in 1..Len(config) : HasKey(report, config[i].key)

\* C5, amended: after a scan that passed both window checks, the returned dict
\* has exactly one entry for every symbol whose task returned a result, in the
\* order of the symbols, and none for any other symbol; a symbol whose task
\* returned None has no entry and is counted in failed_scans.
C5_OneEntryPerSucceededSymbol ==
    ScanCompleted =>
        /\ \A i, j \in 1..Len(report) : i # j => report[i].key # report[j].key
        /\ \A i \in TaskIndexes : Succeeded(i) <=> HasKey(report, tasks[i].symbol)
        /\ \A k \in Symbols :
              HasKey(report, k) => \E i \in 1..Len(config) : config[i].key = k
        /\ \A e \in Range(report) : e.value.kind = "result"
        /\ Len(report) = successful_scans
        /\ failed_scans = Cardinality({i \in TaskIndexes : tasks[i].result = NoneResult})

\* C5 witness: a completed scan in which a task returned None and has no entry
C5_Witness ==
    /\ ScanCompleted
    /\ \E i, j \in TaskIndexes :
          /\ tasks[i].result = NoneResult
          /\ ~HasKey(report, tasks[i].symbol)
          /\ HasKey(report, tasks[j].symbol)
    /\ failed_scans > 0

\* C6: in whatever order the tasks finished, the entry the report has under a
\* symbol is the result of the task that was started for that symbol, and the
\* result's own "symbol" equals its key.
C6_OutcomeMatchedByKey ==
    ScanCompleted =>
        \A e \in Range(report) :
            /\ e.value.symbol = e.key
            /\ \E i \in TaskIndexes :
                  /\ tasks[i].symbol = e.key
                  /\ tasks[i].result = e.value

\* C6 witness: a completed scan with two entries whose tasks finished in the
\* reverse of the order in which they were started
C6_Witness ==
    /\ ScanCompleted
    /\ Len(report) >= 2
    /\ \E m, n \in 1..Len(completed) : m < n /\ completed[m] > completed[n]
    /\ report[1].value.current_price # report[2].value.current_price

---------------------------------------------------------------------------
(* Properties of scan_symbol (SpecScanSymbol)                               *)

ConfigOf(i) == DictGet(config, tasks[i].symbol, NoneConfig)

\* price_change_pct is exactly k
Exactly(pct, k) == ~pct.nan /\ pct.den > 0 /\ pct.num = k * pct.den

\* C7: for every result of a configured symbol, has_opportunity is
\* (pct < -1.0 and the red gate allows) or (pct > 1.0 and the green gate
\* allows); the action is "PUT" exactly when the down branch fires, "CALL"
\* exactly when the up branch fires, None otherwise; the branches never both
\* fire, and a pct of exactly -1.0 or 1.0 gives no opportunity and no action.
C7_ClassificationPolicy ==
    \A i \in TaskIndexes :
        (Succeeded(i) /\ HasKey(config, tasks[i].symbol)) =>
            LET r == tasks[i].result
                pct == r.price_change_pct
                down == Lt(pct, -1) /\ AllowRed(ConfigOf(i))
                up == Gt(pct, 1) /\ AllowGreen(ConfigOf(i))
            IN  /\ r.has_opportunity <=> (down \/ up)
                /\ r.recommended_action = "PUT" <=> down
                /\ r.recommended_action = "CALL" <=> up
                /\ r.recommended_action = "None" <=> ~(down \/ up)
                /\ ~(down /\ up)
                /\ (Exactly(pct, -1) \/ Exactly(pct, 1)) =>
                      /\ ~r.has_opportunity
                      /\ r.recommended_action = "None"

\* C7 witness: a result at exactly -1.0% of a symbol whose red gate allows,
\* classified as no opportunity
C7_Witness ==
    \E i \in TaskIndexes :
        /\ Succeeded(i)
        /\ HasKey(config, tasks[i].symbol)
        /\ AllowRed(ConfigOf(i))
        /\ Exactly(tasks[i].result.price_change_pct, -1)
        /\ ~tasks[i].result.has_opportunity

\* the "allow when red" / "allow when green" flag is not set, at some level
RedUnset(symbol_config) ==
    \/ symbol_config.kind = "None"
    \/ symbol_config.puts.kind = "None"
    \/ symbol_config.puts.write_when.kind = "None"
    \/ symbol_config.puts.write_when.red = "None"

GreenUnset(symbol_config) ==
    \/ symbol_config.kind = "None"
    \/ symbol_config.calls.kind = "None"
    \/ symbol_config.calls.write_when.kind = "None"
    \/ symbol_config.calls.write_when.green = "None"

\* C8, as claimed: a symbol whose "allow when red" flag is not set at any
\* level (no configuration entry, puts None, write_when None, red None) gets
\* an opportunity with "PUT" when pct < -1.0, and symmetrically "CALL" for an
\* unset "allow when green" flag when pct > 1.0.
C8_UnsetGateDefaultsToAllowed ==
    \A i \in TaskIndexes :
        Succeeded(i) =>
            LET r == tasks[i].result
            IN  /\ (RedUnset(ConfigOf(i)) /\ Lt(r.price_change_pct, -1)) =>
                      (r.has_opportunity /\ r.recommended_action = "PUT")
                /\ (GreenUnset(ConfigOf(i)) /\ Gt(r.price_change_pct, 1)) =>
                      (r.has_opportunity /\ r.recommended_action = "CALL")

\* C9: for every ticker whose price can be read, the task returns a result (no
\* arithmetic fault), and its price_change_pct is
\* (current_price - close_price) / close_price * 100 when close_price > 0
\* (NaN when current_price is NaN) and 0 when close_price is 0.
C9_PercentChange ==
    \A i \in TaskIndexes :
        (tasks[i].status = "done" /\ tasks[i].ticker.kind = "Ticker"
            /\ tasks[i].ticker.marketPrice.kind # "raise") =>
            /\ tasks[i].result.kind = "result"
            /\ LET r == tasks[i].result
                   cur == r.current_price
                   prev == r.close_price
                   pct == r.price_change_pct
               IN  /\ ~prev.nan /\ prev.v >= 0
                   /\ pct.den > 0
                   /\ (prev.v > 0 /\ ~cur.nan) =>
                         /\ ~pct.nan
                         /\ pct.num * prev.v = (cur.v - prev.v) * 100 * pct.den
                   /\ (prev.v > 0 /\ cur.nan) => pct.nan
                   /\ prev.v = 0 => (~pct.nan /\ pct.num = 0)

\* C9 witness: a result computed from a previous close of 0
C9_Witness ==
    \E i \in TaskIndexes :
        /\ Succeeded(i)
        /\ tasks[i].ticker.kind = "Ticker"
        /\ tasks[i].ticker.close.kind = "num"
        /\ tasks[i].ticker.close.v = 0
        /\ tasks[i].result.price_change_pct.num = 0

---------------------------------------------------------------------------
(* Properties of the ranking (SpecRank)                                     *)

\* the lexical order of the symbols
SymbolOrder == <<"A", "B", "C">>

Position(seq, x) == CHOOSE i \in 1..Len(seq) : seq[i] = x

LexBefore(a, b) == Position(SymbolOrder, a) < Position(SymbolOrder, b)

\* the whole ranking was returned: the table's rows, or a list no limit cut
FullRanking ==
    \/ top.called = "get_opportunities_summary"
    \/ /\ top.called = "get_top_opportunities"
       /\ top.limit >= Cardinality({i \in 1..Len(scan_results) :
                                       scan_results[i].value.has_opportunity})

\* the ranking holds exactly the results with has_opportunity, by magnitude
\* descending
RankedByMagnitude(list) ==
    /\ \A i \in 1..Len(list) :
          /\ list[i].has_opportunity
          /\ \E k \in 1..Len(scan_results) : scan_results[k].value = list[i]
    /\ \A k \in 1..Len(scan_results) :
          scan_results[k].value.has_opportunity =>
              Cardinality({i \in 1..Len(list) : list[i] = scan_results[k].value}) = 1
    /\ \A i, j \in 1..Len(list) :
          i < j => ~AbsGreater(list[j].price_change_pct, list[i].price_change_pct)

Tied(a, b) ==
    /\ ~AbsGreater(a.price_change_pct, b.price_change_pct)
    /\ ~AbsGreater(b.price_change_pct, a.price_change_pct)

\* C10, as claimed: the ranking holds exactly the results with
\* has_opportunity, by abs(price_change_pct) descending, and two results with
\* the same magnitude are in the lexical order of their symbols.
C10_TiesInLexicalOrder ==
    FullRanking =>
        /\ RankedByMagnitude(top.opportunities)
        /\ \A i, j \in 1..Len(top.opportunities) :
              (i < j /\ Tied(top.opportunities[i], top.opportunities[j])) =>
                  LexBefore(top.opportunities[i].symbol, top.opportunities[j].symbol)

\* C10, amended: the ranking holds exactly the results with has_opportunity,
\* by abs(price_change_pct) descending, and two results with the same
\* magnitude are in the order of their entries in self.scan_results (the order
\* in which the symbols were configured and scanned).
C10_TiesInScanOrder ==
    FullRanking =>
        /\ RankedByMagnitude(top.opportunities)
        /\ \A i, j \in 1..Len(top.opportunities) :
              (i < j /\ Tied(top.opportunities[i], top.opportunities[j])) =>
                  Position(Keys(scan_results), top.opportunities[i].symbol)
                      < Position(Keys(scan_results), top.opportunities[j].symbol)

\* C10 witness: a ranking of two results of the same magnitude, in the order
\* of self.scan_results, which is not the lexical order of their symbols
C10_Witness ==
    /\ FullRanking
    /\ Len(top.opportunities) = 2
    /\ Tied(top.opportunities[1], top.opportunities[2])
    /\ top.opportunities[1] = scan_results[1].value
    /\ LexBefore(top.opportunities[2].symbol, top.opportunities[1].symbol)

\* the number of results with has_opportunity in self.scan_results
OpportunityCount ==
    Cardinality({i \in 1..Len(scan_results) : scan_results[i].value.has_opportunity})

Min(a, b) == IF a < b THEN a ELSE b
Max(a, b) == IF a > b THEN a ELSE b

IsPrefix(s, t) == Len(s) <= Len(t) /\ \A i \in 1..Len(s) : s[i] = t[i]

---------------------------------------------------------------------------
(* Properties of is_premarket_hours (SpecGate)                              *)

\* the calendar lookup of the latest call failed (get_calendar, the time-zone
\* conversion, is_session or session_open)
LookupFailed == lookup.fault \in Faults

\* C12: whenever the calendar lookup of an is_premarket_hours() call fails
\* (get_calendar, the time-zone conversion, is_session or session_open), the
\* call returns False, at every instant and whatever the calendar would have
\* answered; nothing is raised.
C12_FailsClosed ==
    LookupFailed => (window_open = FALSE /\ ~raised)

\* C12 witness: session_open fails on a trading day at an instant inside the
\* window, and the call returned False
C12_Witness ==
    /\ lookup.fault = "session_open"
    /\ lookup.is_session
    /\ PremarketStart <= now /\ now < lookup.session_open
    /\ window_open = FALSE

\* C13: when the calendar lookup succeeds, is_premarket_hours() returns True
\* exactly when today is a session and premarket_start <= now < regular open:
\* False on every day that is not a session, True at premarket_start, False at
\* the regular open and after it, False before premarket_start.
C13_WindowIsHalfOpen ==
    lookup.fault = "none" =>
        /\ window_open <=>
              (lookup.is_session /\ PremarketStart <= now /\ now < lookup.session_open)
        /\ ~lookup.is_session => ~window_open
        /\ (lookup.is_session /\ now = PremarketStart) => window_open
        /\ now >= lookup.session_open => ~window_open
        /\ now < PremarketStart => ~window_open

\* C13 witness: a call on a session at the instant of the regular open, which
\* returned False
C13_Witness ==
    /\ lookup.fault = "none"
    /\ lookup.is_session
    /\ now = lookup.session_open
    /\ window_open = FALSE

---------------------------------------------------------------------------
(* Properties of the tasks: failures and retries                            *)

\* the quote of task i could not be fetched, or it lacks a price field
QuoteFetchFailed(i) == tasks[i].ticker.kind \in {"raise", "None"}

PriceFieldMissing(i) ==
    /\ tasks[i].ticker.kind = "Ticker"
    /\ \/ tasks[i].ticker.marketPrice.kind \in {"missing", "nan"}
       \/ tasks[i].ticker.close.kind \in {"missing", "nan"}

\* C14, as claimed: a task whose get_ticker_for_contract call failed, or whose
\* ticker has no market price or no previous close (absent or NaN), returns no
\* result (a failure), never a result dict.
C14_MissingPriceIsFailure ==
    \A i \in TaskIndexes :
        (tasks[i].status = "done" /\ (QuoteFetchFailed(i) \/ PriceFieldMissing(i)))
            => tasks[i].result.kind # "result"

\* C15: a task whose qualify_contracts call returned an empty list is done
\* at once with None (a failure), it made one qualify_contracts call and no
\* get_ticker_for_contract call, nothing was raised, and after the scan its
\* symbol has no entry in the report and is counted in failed_scans.
C15_UnqualifiedSymbolFails ==
    /\ ~raised
    /\ \A i \in TaskIndexes :
          tasks[i].qualified = "empty" =>
              /\ tasks[i].status = "done"
              /\ tasks[i].result = NoneResult
              /\ tasks[i].ticker = NoTicker
              /\ tasks[i].qualify_calls = 1
              /\ tasks[i].ticker_calls = 0
              /\ ScanCompleted =>
                    /\ ~HasKey(report, tasks[i].symbol)
                    /\ failed_scans >= 1

\* C15 witness: a completed scan in which one symbol was not qualified and
\* another symbol has its result in the report
C15_Witness ==
    /\ ScanCompleted
    /\ \E i, j \in TaskIndexes :
          /\ tasks[i].qualified = "empty"
          /\ tasks[i].ticker_calls = 0
          /\ Succeeded(j)
          /\ HasKey(report, tasks[j].symbol)

\* C16, as claimed: while the tasks run (between the start of gather and its
\* return), nothing writes to the dict self.scan_results.
C16_NoTaskWritesResultMap ==
    [][(pc = "gathering" /\ pc' = "gathering") => scan_results' = scan_results]_vars

\* C18, as claimed: the dict a scan_all_symbols call returned changes only by
\* being replaced when a later scan_all_symbols call returns.
C18_ReturnedReportNeverChanges ==
    [][report' # report => pc' = "idle"]_vars

\* C19: every task calls qualify_contracts at most once and
\* get_ticker_for_contract at most once, the latter only after the former; a
\* task whose qualify_contracts call raised or returned nothing is done, failed,
\* without a get_ticker_for_contract call; a task whose
\* get_ticker_for_contract call raised or returned nothing is done, failed,
\* after one call of each; a task is done once.
C19_NoRetries ==
    \A i \in TaskIndexes :
        /\ tasks[i].qualify_calls <= 1
        /\ tasks[i].ticker_calls <= tasks[i].qualify_calls
        /\ tasks[i].qualified \in {"raise", "empty"} =>
              /\ Failed(i)
              /\ tasks[i].qualify_calls = 1
              /\ tasks[i].ticker_calls = 0
        /\ QuoteFetchFailed(i) =>
              /\ Failed(i)
              /\ tasks[i].qualify_calls = 1
              /\ tasks[i].ticker_calls = 1
        /\ Cardinality({n \in 1..Len(completed) : completed[n] = i})
              = IF tasks[i].status = "done" THEN 1 ELSE 0

\* C19 witness: a completed scan in which qualify_contracts raised for one
\* symbol and get_ticker_for_contract raised for another, each called once
C19_Witness ==
    /\ ScanCompleted
    /\ failed_scans = 2
    /\ \E i, j \in TaskIndexes :
          /\ tasks[i].qualified = "raise"
          /\ tasks[i].qualify_calls = 1
          /\ tasks[i].ticker_calls = 0
          /\ tasks[j].ticker.kind = "raise"
          /\ tasks[j].qualify_calls = 1
          /\ tasks[j].ticker_calls = 1

---------------------------------------------------------------------------
(* Properties of a session (SpecSession) and of the scenario (SpecScenario) *)

\* what a read of the ranking or of the table returns when it reads `results`
ReadOf(results, t) ==
    IF t.called = "get_top_opportunities"
    THEN TopOpportunities(results, t.limit)
    ELSE SummaryRows(results)

\* C17, as claimed: every read of the ranking or of the table between two
\* scans returns the opportunities of the dict the most recent
\* scan_all_symbols call returned; after a call that found the window closed
\* (or no symbol) that dict is empty and the read returns nothing.
C17_ReadsOnlyTheLatestScan ==
    [][(pc = "idle" /\ top' # top) => top'.opportunities = ReadOf(report, top')]_vars

\* C20: in the scenario, once the scan has returned, the report is A then B;
\* A is an opportunity with "PUT" at -2%, B is no opportunity with no action
\* at +0.5%, C has failed on its quote and has no entry; 2 scans succeeded
\* and 1 failed; the table shows A alone, and so does every ranking with a
\* limit of 1 or more.
C20_Scenario ==
    ScanCompleted =>
        /\ Keys(report) = <<"A", "B">>
        /\ report[1].value.has_opportunity
        /\ report[1].value.recommended_action = "PUT"
        /\ Exactly(report[1].value.price_change_pct, -2)
        /\ ~report[2].value.has_opportunity
        /\ report[2].value.recommended_action = "None"
        /\ report[2].value.price_change_pct.num * 2 = report[2].value.price_change_pct.den
        /\ QuoteFetchFailed(3) /\ Failed(3) /\ tasks[3].symbol = "C"
        /\ ~HasKey(report, "C")
        /\ successful_scans = 2
        /\ failed_scans = 1
        /\ ~raised
        /\ WindowValidAtStart /\ WindowValidAtEnd
        /\ (top.called = "get_opportunities_summary"
              \/ (top.called = "get_top_opportunities" /\ top.limit >= 1))
             => top.opportunities = <<report[1].value>>

\* C20 witness: the scan of the scenario has returned, C having finished
\* first, and the ranking has been read with a limit above the one opportunity
C20_Witness ==
    /\ ScanCompleted
    /\ completed[1] = 3
    /\ Len(report) = 2
    /\ top.called = "get_top_opportunities"
    /\ top.limit = 2
    /\ Len(top.opportunities) = 1
    /\ top.opportunities[1].symbol = "A"

---------------------------------------------------------------------------
(* Properties of get_same_week_expiry (SpecExpiry)                          *)

\* C21, as claimed: for every earnings date that falls on Monday to Friday,
\* get_same_week_expiry returns the YYYYMMDD string of a Friday that is 0 to
\* 4 days after the earnings date (the earnings date itself on a Friday).
C21_FridayOfTheSameWeek ==
    (earnings_date # Unreturned /\ Weekday(earnings_date.day) <= 4) =>
        /\ expiry_str.kind = "str"
        /\ \E friday \in earnings_date.day .. earnings_date.day + 4 :
              /\ Weekday(friday) = 4
              /\ expiry_str.v = Strftime(friday)

---------------------------------------------------------------------------
(* Properties of the market regime detector (SpecRegime)                    *)

\* C22, as claimed: for every current_regime detect_regime can store, and
\* for None, get_position_size_multiplier returns a value between 0.0 and
\* 1.0 inclusive.
C22_MultiplierWithinUnitInterval ==
    /\ 0 <= GetPositionSizeMultiplier(current_regime)
    /\ GetPositionSizeMultiplier(current_regime) <= 100

\* a step in which detect_regime returned the default metrics
FailedCallKeepsRegime ==
    metrics' = DefaultRegime =>
        /\ current_regime' = current_regime
        /\ ShouldTrade(current_regime') = ShouldTrade(current_regime)
        /\ GetPositionSizeMultiplier(current_regime')
              = GetPositionSizeMultiplier(current_regime)
        /\ GetDeltaAdjustment(current_regime') = GetDeltaAdjustment(current_regime)

\* a step in which detect_regime returned other metrics than the default
SuccessfulCallStores ==
    (metrics' # DefaultRegime /\ metrics' # metrics) => current_regime' = metrics'

NeverStoresUnknown ==
    current_regime.kind # "None" => current_regime.regime # "unknown"

UnknownOnlyByDefault ==
    (metrics.kind = "RegimeMetrics" /\ metrics.regime = "unknown") =>
        (metrics = DefaultRegime /\ metrics.confidence.num = 0)

ShouldTradeExactly ==
    ~ShouldTrade(current_regime) <=>
        /\ current_regime.kind # "None"
        /\ current_regime.regime = "high_volatility"
        /\ current_regime.vix_level.v > 40

\* C27: a detect_regime call that fails returns the default metrics (UNKNOWN,
\* confidence 0) and leaves current_regime as it was, so should_trade,
\* get_position_size_multiplier and get_delta_adjustment answer as before
\* the call; a call that succeeds stores what it returns; UNKNOWN is never
\* stored; should_trade is False exactly when the stored regime is
\* HIGH_VOLATILITY with a VIX above 40.
C27_FailureKeepsStoredRegime ==
    /\ [][FailedCallKeepsRegime /\ SuccessfulCallStores]_vars
    /\ [](NeverStoresUnknown /\ UnknownOnlyByDefault /\ ShouldTradeExactly)

\* C27 witness: the last detect_regime call failed while the stored regime is
\* HIGH_VOLATILITY with a VIX of 41, and should_trade is False
C27_Witness ==
    /\ metrics = DefaultRegime
    /\ current_regime.kind = "RegimeMetrics"
    /\ current_regime.regime = "high_volatility"
    /\ current_regime.vix_level.v = 41
    /\ ~ShouldTrade(current_regime)

---------------------------------------------------------------------------
(* Properties of the fan-in (SpecFair)                                      *)

\* the step in which gather returns: the post-check, the construction of the
\* returned dict and the return of scan_all_symbols
FanInStep == pc = "gathering" /\ pc' = "idle"

\* C23: the post-check, the construction of the returned dict and the return
\* of a scan that passed both window checks happen only once every task is
\* done, so the "expired during scan" and "completed" lines are only logged
\* with every task done; and when every coroutine that can run is run and
\* every collaborator call returns or raises, a scan_all_symbols call that
\* has started always returns.
C23_FanInAfterEveryTask ==
    /\ [][FanInStep => \A i \in TaskIndexes : tasks[i].status = "done"]_vars
    /\ []((log \cap {"expired during scan", "completed"} # {}) =>
             (Len(tasks) > 0 /\ \A i \in TaskIndexes : tasks[i].status = "done"))
    /\ (pc # "idle") ~> (pc = "idle")

\* C23 witness: a scan has returned after its tasks finished in the reverse
\* of the order of their creation, one of them with a failure
C23_Witness ==
    /\ ScanCompleted
    /\ Len(tasks) = 2
    /\ completed = <<2, 1>>
    /\ \E i \in TaskIndexes : Failed(i)

---------------------------------------------------------------------------
(* Properties of the exchange hours (SpecHours)                             *)

\* C24, as claimed: whenever need_to_exit reaches waited_for_open and
\* time.sleep is called, its argument seconds_until_start is not negative.
C24_SleepIsNeverNegative ==
    slept.kind \in {"slept", "sleep raised"} => slept.seconds_until_start >= 0

\* the instant lies in [open + delay_after_open, close - delay_before_close]
\* of day d, a session
InRegularHours ==
    /\ lookup.is_session
    /\ lookup.session_open + hours_config.delay_after_open <= now
    /\ now <= lookup.session_close - hours_config.delay_before_close

\* C25: whenever is_premarket_hours() is True and enable_premarket_scanner is
\* set, determine_action returns "continue" at the same instant, whatever
\* action_when_closed, delays and enable_extended_hours are, and need_to_exit
\* returns False; with enable_extended_hours set, enable_premarket_scanner
\* unset and a closed action other than "continue", determine_action does not
\* return "continue" at any instant at which is_premarket_hours() is True.
C25_ExitDecisionAgreesWithWindow ==
    hours_config # Unreturned =>
        /\ (window_open /\ hours_config.enable_premarket_scanner) =>
              /\ action = "continue"
              /\ NeedToExit(action, slept) = "False"
        /\ (/\ window_open
            /\ hours_config.enable_extended_hours
            /\ ~hours_config.enable_premarket_scanner
            /\ hours_config.action_when_closed # "continue") =>
              action # "continue"

\* C25 witness: the scanner's window is open, only the premarket scanner is
\* enabled, the closed action is "exit", and determine_action said "continue"
C25_Witness ==
    /\ hours_config # Unreturned
    /\ window_open
    /\ hours_config.enable_premarket_scanner
    /\ ~hours_config.enable_extended_hours
    /\ hours_config.action_when_closed = "exit"
    /\ action = "continue"

====
